---- MODULE Spec2Model ----
(***************************************************************************)
(* Model of the parallel MCTS search core of princhess:                    *)
(*   src/src/search_tree.rs  (SearchTree::playout, descend, finish_playout)*)
(*   src/src/evaluation.rs   (Flag, evaluate_state, evaluate_state_flag)   *)
(* Worker threads run playout() step by step; every step is one access to  *)
(* shared memory (an atomic, the flip lock, the arena, the transposition   *)
(* table) together with the thread-local code that follows it.             *)
(* The transposition table, the arena, the chess State and the tree policy *)
(* are not in src/: they are modelled from their contracts.                *)
(***************************************************************************)
EXTENDS Integers, Sequences, FiniteSets, TLC

(* ------------------------------ bounds -------------------------------- *)
\* worker threads that may run playout() concurrently
NumThreads == 2
\* calls of playout() each worker may start in one behaviour
MaxPlayouts == 1
\* capacities of one arena, in slots (a node takes one, an edge takes one):
\* one that a single playout can exhaust, one that holds several expansions
ArenaCapSmall == 4
ArenaCapLarge == 10
\* usize::MAX, scaled down to the integers TLC computes with
UsizeMax == 1048575

(* ---------------------------- constants ------------------------------- *)
\* crate::search::SCALE (imported at search_tree.rs:12)
SCALE == 256
VIRTUAL_LOSS == SCALE
MAX_PLAYOUT_LENGTH == 256

Threads == 1..NumThreads
ArenaCaps == {ArenaCapSmall, ArenaCapLarge}
NoThread == 0

(* ------------------------------ Flag ---------------------------------- *)
Flags == {"Standard", "TerminalWin", "TerminalDraw", "TerminalLoss",
          "TablebaseWin", "TablebaseDraw", "TablebaseLoss"}

\* Flag::flip exchanging only the terminal flags
flip_terminal_only(f) ==
    CASE f = "TerminalWin"   -> "TerminalLoss"
      [] f = "TerminalLoss"  -> "TerminalWin"
      [] OTHER               -> f

flip(f) ==
    CASE f = "TerminalWin"   -> "TerminalLoss"
      [] f = "TerminalLoss"  -> "TerminalWin"
      [] f = "TablebaseWin"  -> "TablebaseLoss"
      [] f = "TablebaseLoss" -> "TablebaseWin"
      [] OTHER               -> f

is_terminal(f) == f \in {"TerminalWin", "TerminalDraw", "TerminalLoss"}

is_tablebase(f) == f \in {"TablebaseWin", "TablebaseDraw", "TablebaseLoss"}

fold_wb(color, a, b) == IF color = "White" THEN a ELSE b

(* ------------------- the chess State API (external) ------------------- *)
(* Positions are numbers.  0 is an ordinary root; 1 and 2 are its two      *)
(* replies, which transpose into 3; 3 can go back to 1 (a repetition on    *)
(* the path 0-1-3-1) or mate with 4.  5, 6 and 7 are roots without legal   *)
(* moves: stalemate, white mated, black mated.  8 is a root with black to  *)
(* move, who can mate (6) or stalemate (5).  9 and 11 are roots the        *)
(* tablebase knows, black resp. white to move and winning; 10 and 12 to 15 *)
(* are tablebase positions with the halfmove clock at 0, reached from the  *)
(* roots 8, 9 and 11: lost, drawn and won for the side to move.            *)
Positions == 0..15

RootPositions == {0, 5, 6, 7, 8, 9, 11}

available_moves(p) ==
    CASE p = 0 -> <<1, 2>>
      [] p = 1 -> <<3>>
      [] p = 2 -> <<3>>
      [] p = 3 -> <<1, 4>>
      [] p = 8 -> <<6, 5, 15>>
      [] p = 9 -> <<10>>
      [] p = 10 -> <<9>>
      [] p = 11 -> <<12, 13, 14>>
      [] p = 12 -> <<11>>
      [] p = 13 -> <<11>>
      [] p = 14 -> <<11>>
      [] p = 15 -> <<8>>
      [] OTHER -> <<>>

side_to_move(p) == IF p \in {0, 3, 5, 6, 10, 11, 15} THEN "White" ELSE "Black"

is_check(p) == p \in {4, 6, 7}

\* the tablebase oracle, for the side to move: "None", "Win", "Loss" or "Draw"
probe_tablebase_wdl(p) ==
    CASE p \in {9, 11, 14, 15} -> "Win"
      [] p \in {7, 10, 12}     -> "Loss"
      [] p = 13                -> "Draw"
      [] OTHER                 -> "None"

halfmove_counter(p) == IF p \in {3, 10, 12, 13, 14, 15} THEN 0 ELSE 1

\* drawn_by_fifty_move_rule() or is_insufficient_material()
RuleDraw(p) == FALSE

\* the value network's output times SCALE, truncated to an integer
run_eval_net(p) ==
    CASE p = 1 -> SCALE
      [] p = 2 -> -(SCALE \div 2)
      [] p = 3 -> SCALE \div 4
      [] OTHER -> 0

\* a State: the position and the positions already seen on the way to it
StateOf(p) == [pos |-> p, hist |-> {}]

make_move(s, p) == [pos |-> p, hist |-> s.hist \cup {s.pos}]

is_repetition(s) == s.pos \in s.hist

(* ----------------------------- evaluation ----------------------------- *)
evaluate_state(s) ==
    fold_wb(side_to_move(s.pos), run_eval_net(s.pos), -run_eval_net(s.pos))

\* evaluate_state_flag returning the mover's flag whatever the side to move
evaluate_state_flag_of_mover(p) ==
    LET moves == available_moves(p)
        wdl   == probe_tablebase_wdl(p)
    IN  IF Len(moves) = 0
        THEN (IF is_check(p) THEN "TerminalLoss" ELSE "TerminalDraw")
        ELSE IF wdl # "None"
             THEN (CASE wdl = "Win"  -> "TablebaseWin"
                     [] wdl = "Loss" -> "TablebaseLoss"
                     [] OTHER        -> "TablebaseDraw")
             ELSE "Standard"

evaluate_state_flag(p) ==
    LET moves == available_moves(p)
        wdl   == probe_tablebase_wdl(p)
        flag  == IF Len(moves) = 0
                 THEN (IF is_check(p) THEN "TerminalLoss" ELSE "TerminalDraw")
                 ELSE IF wdl # "None"
                      THEN (CASE wdl = "Win"  -> "TablebaseWin"
                              [] wdl = "Loss" -> "TablebaseLoss"
                              [] OTHER        -> "TablebaseDraw")
                      ELSE "Standard"
    IN  fold_wb(side_to_move(p), flag, flip(flag))

(* ------------------------- nodes and pointers ------------------------- *)
(* A pointer is <<generation, slot>>: the arena generation the slot was    *)
(* allocated in and its number there.  Generation g is the active arena    *)
(* while gen = g, the previous arena while gen = g + 1 and is reset by the *)
(* flip that makes gen = g + 2.  The statics have negative generations.    *)
NULL == <<-1, 0>>
ROOT_NODE == <<-2, 0>>
DRAW_NODE == <<-3, 0>>
UNEXPANDED_NODE == <<-4, 0>>

Statics == {ROOT_NODE, DRAW_NODE, UNEXPANDED_NODE}

\* HotMoveInfo::new: a fresh edge.  downs, ups, warm, dgen and lgen are history
\* (not program state): completed down() and up() calls on the edge, whether
\* its statistics were copied from a table entry, and the generation in which
\* a descend() on it last returned a node / last went through the linking code.
HotMoveInfoNew ==
    [visits |-> 0, sum_evaluations |-> 0, child |-> NULL,
     downs |-> 0, ups |-> 0, warm |-> FALSE, dgen |-> -1, lgen |-> -1]

\* SearchNode::new, with the generation the edge slice was allocated in
SearchNodeNew(p, fl, hs, g) == [pos |-> p, flag |-> fl, hots |-> hs, hgen |-> g]

NoNode == SearchNodeNew(0, "Standard", <<>>, -1)

(* ------------------------------- state -------------------------------- *)
VARIABLES
    root_state,   \* SearchTree.root_state (a position)
    cap,          \* capacity of each of the two arenas
    heap,         \* the nodes: the statics, the root node and both arenas
    ttActive,     \* LRTable: the active generation's map, position -> pointer
    ttPrev,       \* LRTable: the previous generation's map
    gen,          \* generation of the active arena (one more per flip)
    used,         \* slots taken in the active arena
    full,         \* the active arena has refused an allocation
    flip_lock,    \* holder of ttable.flip_lock(), or NoThread
    num_nodes, playouts, max_depth, tb_hits, next_info,
    tl,           \* per thread: the locals of playout() and descend()
    budget,       \* calls of playout() still to be started
    ub,           \* a thread has dereferenced a null or dangling pointer
    time_over,    \* time_management.is_after_end()
    clock,        \* time_management.elapsed().as_secs()
    printed,      \* history: the elapsed values of the periodic info lines
    call          \* a function of the program applied to drawn arguments

vars == <<root_state, cap, heap, ttActive, ttPrev, gen, used, full, flip_lock,
          num_nodes, playouts, max_depth, tb_hits, next_info, tl, budget, ub,
          time_over, clock, printed, call>>

\* what the steps of playout() other than its last leave alone
aux == <<time_over, clock, printed, call>>

\* no function has been applied
NoCall == [fn |-> "none"]

counters == <<num_nodes, playouts, max_depth, tb_hits, next_info>>

Max(a, b) == IF a >= b THEN a ELSE b

Abs(a) == IF a >= 0 THEN a ELSE -a

EmptyTable == [p \in Positions |-> NULL]

\* a reference to heap[n].hots[i]
EdgeRef(n, i) == [n |-> n, i |-> i]

NoEdge == EdgeRef(NULL, 0)

Hot(e) == heap[e.n].hots[e.i]

\* the position an edge's move leads to
Target(e) == available_moves(heap[e.n].pos)[e.i]

\* p points to a node that exists: a static, or a slot of the active or the
\* previous arena
NodeLive(p) == p \in Statics \/ (p \in DOMAIN heap /\ p[1] >= gen - 1)

\* the edge slice of node n has not been reset either
HotsLive(n) == NodeLive(n) /\ (n \in Statics \/ heap[n].hgen >= gen - 1)

EdgeLive(e) == HotsLive(e.n) /\ e.i \in 1..Len(heap[e.n].hots)

\* every edge of every node of the heap
Edges == {e \in UNION {{EdgeRef(n, i) : i \in 1..Len(heap[n].hots)} : n \in DOMAIN heap} : TRUE}

(* --------------------- construction: SearchTree::new ------------------- *)
\* HotMoveInfo::replace: copy visits and sum_evaluations, nothing else
replace(dst, src) ==
    [dst EXCEPT !.visits = src.visits,
                !.sum_evaluations = src.sum_evaluations,
                !.warm = TRUE]

\* the edge slice create_node fills: one fresh edge per legal move
NewHots(p) == [i \in 1..Len(available_moves(p)) |-> HotMoveInfoNew]

\* TranspositionTable::lookup_into on edge slices: positionally, up to the
\* shorter length
CopyStats(dst, src) ==
    [i \in 1..Len(dst) |-> IF i <= Len(src) THEN replace(dst[i], src[i]) ELSE dst[i]]

\* an edge as a finished earlier search left it
PriorHot(v, s, c) ==
    [HotMoveInfoNew EXCEPT !.visits = v, !.sum_evaluations = s, !.child = c,
                           !.warm = TRUE]

\* The tables an earlier search can hand over as previous_table.  "deep": it
\* reached the present root position 0 and, below it, positions 1 and 3.
\* "wide": it reached 0 and both replies 1 and 2.  "cold": it is empty.
Prior0 == <<0, 1>>
Prior1 == <<0, 2>>
Prior3 == <<0, 3>>
Prior2 == <<0, 4>>

Warmths == {"cold", "deep", "wide"}

PriorHeap(w) ==
    CASE w = "deep" ->
           (Prior0 :> SearchNodeNew(0, "Standard",
                        <<PriorHot(2, SCALE, Prior1), PriorHot(0, 0, NULL)>>, 0))
           @@ (Prior1 :> SearchNodeNew(1, "Standard",
                        <<PriorHot(2, -SCALE, Prior3)>>, 0))
           @@ (Prior3 :> SearchNodeNew(3, "Standard",
                        <<PriorHot(1, 0, NULL), PriorHot(1, SCALE, NULL)>>, 0))
      [] w = "wide" ->
           (Prior0 :> SearchNodeNew(0, "Standard",
                        <<PriorHot(2, SCALE, Prior1), PriorHot(2, 0, Prior2)>>, 0))
           @@ (Prior1 :> SearchNodeNew(1, "Standard",
                        <<PriorHot(1, -SCALE, NULL)>>, 0))
           @@ (Prior2 :> SearchNodeNew(2, "Standard",
                        <<PriorHot(1, SCALE \div 2, NULL)>>, 0))
      [] OTHER -> <<>>

PriorTable(w) == [p \in Positions |->
    CASE w = "deep" /\ p = 0 -> Prior0
      [] w = "deep" /\ p = 1 -> Prior1
      [] w = "deep" /\ p = 3 -> Prior3
      [] w = "wide" /\ p = 0 -> Prior0
      [] w = "wide" /\ p = 1 -> Prior1
      [] w = "wide" /\ p = 2 -> Prior2
      [] OTHER -> NULL]

StaticHeap ==
    (DRAW_NODE :> SearchNodeNew(0, "TerminalDraw", <<>>, -1))
    @@ (UNEXPANDED_NODE :> SearchNodeNew(0, "Standard", <<>>, -1))

\* create_node as SearchTree::new uses it, followed by the warm start from
\* previous_table
RootNode(p, prevTable, prevHeap) ==
    LET fresh == NewHots(p)
        hs == IF prevTable[p] # NULL
              THEN CopyStats(fresh, prevHeap[prevTable[p]].hots)
              ELSE fresh
    IN  SearchNodeNew(p, evaluate_state_flag(p), hs, -1)

\* the locals of a thread that is not inside playout(); raised is history:
\* the thread's last down() found the edge with visits = 0; count is the
\* local playouts of line 319 where line 326 found a multiple of 65536
IdleThread ==
    [pc |-> "idle", state |-> StateOf(0), node |-> NULL, path |-> <<>>,
     evaln |-> 0, choice |-> NoEdge, child |-> NULL, found |-> NULL,
     created_here |-> NoNode, created |-> NULL, bi |-> 0, ci |-> 0,
     evaln_value |-> 0, ret |-> "none", via |-> "none", seen |-> NULL,
     failgen |-> -1, did_flip |-> FALSE, dstart |-> -1, raised |-> FALSE,
     count |-> 0, elapsed |-> 0]

Init ==
    /\ root_state \in RootPositions
    /\ \E w \in Warmths :
          /\ (w # "cold" => root_state = 0)
          /\ ttPrev = PriorTable(w)
          /\ heap = (ROOT_NODE :> RootNode(root_state, ttPrev, PriorHeap(w)))
                    @@ StaticHeap
                    @@ PriorHeap(w)
    /\ cap \in ArenaCaps
    /\ (root_state # 0 => cap = ArenaCapSmall)
    /\ ttActive = EmptyTable
    /\ gen = 1
    /\ used = 0
    /\ full = FALSE
    /\ flip_lock = NoThread
    /\ num_nodes = 1
    /\ playouts = 0
    /\ max_depth = 0
    /\ tb_hits = (IF is_tablebase(evaluate_state_flag(root_state)) THEN 1 ELSE 0)
    /\ next_info = 0
    /\ tl = [t \in Threads |-> IdleThread]
    /\ budget = [t \in Threads |-> MaxPlayouts]
    /\ ub = FALSE
    /\ time_over = FALSE
    /\ clock = 0
    /\ printed = <<>>
    /\ call = NoCall

(* ------------------------------ helpers -------------------------------- *)
\* Dereferencing a null pointer or a pointer into an arena that a flip has
\* reset is undefined behaviour: nothing is claimed of the run beyond it.
Undefined(t) ==
    /\ ub' = TRUE
    /\ tl' = [tl EXCEPT ![t].pc = "ub"]
    /\ UNCHANGED <<aux, root_state, cap, heap, ttActive, ttPrev, gen, used, full,
                   flip_lock, counters, budget>>

\* history: descend(), entered in generation g0, has returned a node for
\* edge e; linked tells whether it went through the code that links the child
\* (lines 357-394) rather than returning at line 349 or line 354
Returned(h, e, g0, linked) ==
    LET g == IF g0 = gen THEN gen ELSE -1
    IN  IF e.n \in DOMAIN h /\ e.i \in 1..Len(h[e.n].hots)
        THEN [h EXCEPT ![e.n].hots[e.i].dgen = g,
                       ![e.n].hots[e.i].lgen = IF linked THEN g ELSE @]
        ELSE h

\* Arena: n more slots fit
Fits(n) == ~full /\ used + n <= cap

(* --------------------- SearchTree::playout, the loop ------------------- *)
\* playout(): lines 254-257
Start(t) ==
    /\ ~ub
    /\ tl[t].pc = "idle"
    /\ budget[t] > 0
    /\ budget' = [budget EXCEPT ![t] = @ - 1]
    /\ tl' = [tl EXCEPT ![t] = [IdleThread EXCEPT !.pc = "lock",
                                   !.state = StateOf(root_state),
                                   !.node = ROOT_NODE]]
    /\ UNCHANGED <<aux, root_state, cap, heap, ttActive, ttPrev, gen, used, full,
                   flip_lock, counters, ub>>

\* line 260: take flip_lock at the top of the iteration
TopLock(t) ==
    /\ ~ub
    /\ tl[t].pc = "lock"
    /\ flip_lock = NoThread
    /\ flip_lock' = t
    /\ tl' = [tl EXCEPT ![t].pc = "unlock"]
    /\ UNCHANGED <<aux, root_state, cap, heap, ttActive, ttPrev, gen, used, full,
                   counters, budget, ub>>

\* the four break conditions of lines 262-273
LoopBreaks(n, s, path) ==
    \/ is_terminal(n.flag)
    \/ Len(n.hots) = 0
    \/ (is_tablebase(n.flag) /\ halfmove_counter(s.pos) = 0)
    \/ Len(path) >= MAX_PLAYOUT_LENGTH

\* the top guard kept to the end of the iteration instead of dropped
TopUnlockKeepsGuard(t) ==
    /\ ~ub
    /\ tl[t].pc = "unlock"
    /\ flip_lock = t
    /\ flip_lock' = flip_lock
    /\ IF ~NodeLive(tl[t].node)
       THEN /\ ub' = TRUE
            /\ tl' = [tl EXCEPT ![t].pc = "ub"]
       ELSE /\ ub' = ub
            /\ tl' = [tl EXCEPT ![t].pc =
                        IF LoopBreaks(heap[tl[t].node], tl[t].state, tl[t].path)
                        THEN "norm" ELSE "choose",
                      ![t].via = "none", ![t].seen = NULL]
    /\ UNCHANGED <<aux, root_state, cap, heap, ttActive, ttPrev, gen, used, full,
                   counters, budget>>

\* lines 261-273: the guard is dropped at once; then the break conditions,
\* which read the node
TopUnlock(t) ==
    /\ ~ub
    /\ tl[t].pc = "unlock"
    /\ flip_lock = t
    /\ flip_lock' = NoThread
    /\ IF ~NodeLive(tl[t].node)
       THEN /\ ub' = TRUE
            /\ tl' = [tl EXCEPT ![t].pc = "ub"]
       ELSE /\ ub' = ub
            /\ tl' = [tl EXCEPT ![t].pc =
                        IF LoopBreaks(heap[tl[t].node], tl[t].state, tl[t].path)
                        THEN "norm" ELSE "choose",
                      ![t].via = "none", ![t].seen = NULL]
    /\ UNCHANGED <<aux, root_state, cap, heap, ttActive, ttPrev, gen, used, full,
                   counters, budget>>

\* tree_policy::choose_child: some edge of the node (the PUCT argmax depends
\* on the priors, which are not modelled)
choose_child(hots) == 1..Len(hots)

\* down() with the sign of the virtual loss wrong
DownSumAdds(h, e) ==
    [h EXCEPT ![e.n].hots[e.i].sum_evaluations = @ + VIRTUAL_LOSS]

\* HotMoveInfo::down, first half (line 135): sum_evaluations -= VIRTUAL_LOSS
DownSum(h, e) ==
    [h EXCEPT ![e.n].hots[e.i].sum_evaluations = @ - VIRTUAL_LOSS]

\* HotMoveInfo::down, second half (line 137): visits += 1
DownVisits(h, e) ==
    [h EXCEPT ![e.n].hots[e.i].visits = @ + 1,
              ![e.n].hots[e.i].downs = @ + 1]

\* lines 274-275: choose_child, then the fetch_sub of down()
Choose(t) ==
    /\ ~ub
    /\ tl[t].pc = "choose"
    /\ IF ~HotsLive(tl[t].node)
       THEN Undefined(t)
       ELSE \E i \in choose_child(heap[tl[t].node].hots) :
              LET e == EdgeRef(tl[t].node, i) IN
              /\ heap' = DownSum(heap, e)
              /\ tl' = [tl EXCEPT ![t].pc = "down2", ![t].choice = e]
              /\ UNCHANGED <<aux, root_state, cap, ttActive, ttPrev, gen, used, full,
                             flip_lock, counters, budget, ub>>

\* lines 275-277: the fetch_add of down(), path.push, state.make_move
Down2(t) ==
    /\ ~ub
    /\ tl[t].pc = "down2"
    /\ IF ~EdgeLive(tl[t].choice)
       THEN Undefined(t)
       ELSE /\ heap' = DownVisits(heap, tl[t].choice)
            /\ tl' = [tl EXCEPT ![t].pc = "visits",
                         ![t].raised = (Hot(tl[t].choice).visits = 0),
                         ![t].path = Append(@, tl[t].choice),
                         ![t].state = make_move(@, Target(tl[t].choice))]
            /\ UNCHANGED <<aux, root_state, cap, ttActive, ttPrev, gen, used, full,
                           flip_lock, counters, budget, ub>>

\* lines 279-283: a first visit is evaluated and ends the descent
CheckVisits(t) ==
    /\ ~ub
    /\ tl[t].pc = "visits"
    /\ IF ~EdgeLive(tl[t].choice)
       THEN Undefined(t)
       ELSE /\ tl' = IF Hot(tl[t].choice).visits = 1
                     THEN [tl EXCEPT ![t].pc = "norm",
                              ![t].evaln = evaluate_state(tl[t].state),
                              ![t].node = UNEXPANDED_NODE]
                     ELSE [tl EXCEPT ![t].pc = "desc"]
            /\ UNCHANGED <<aux, root_state, cap, heap, ttActive, ttPrev, gen, used, full,
                           flip_lock, counters, budget, ub>>

(* ------------------------- SearchTree::descend ------------------------- *)
\* lines 345-350: the draws that end the descent at DRAW_NODE
DrawnByRule(s) == is_repetition(s) \/ RuleDraw(s.pos)

\* lines 345-355: the draw check, then the load of choice.child
DescendLoad(t) ==
    /\ ~ub
    /\ tl[t].pc = "desc"
    /\ IF DrawnByRule(tl[t].state)
       THEN /\ heap' = Returned(heap, tl[t].choice, gen, FALSE)
            /\ tl' = [tl EXCEPT ![t].pc = "lock", ![t].node = DRAW_NODE,
                         ![t].via = "draw", ![t].dstart = gen]
            /\ UNCHANGED <<aux, root_state, cap, ttActive, ttPrev, gen, used, full,
                           flip_lock, counters, budget, ub>>
       ELSE IF ~EdgeLive(tl[t].choice)
       THEN Undefined(t)
       ELSE LET c == Hot(tl[t].choice).child IN
            /\ heap' = IF c # NULL
                       THEN Returned(heap, tl[t].choice, gen, FALSE)
                       ELSE heap
            /\ tl' = IF c # NULL
                     THEN [tl EXCEPT ![t].pc = "lock", ![t].node = c,
                              ![t].child = c, ![t].via = "child",
                              ![t].dstart = gen]
                     ELSE [tl EXCEPT ![t].pc = "lookup", ![t].child = c,
                              ![t].dstart = gen]
            /\ UNCHANGED <<aux, root_state, cap, ttActive, ttPrev, gen, used, full,
                           flip_lock, counters, budget, ub>>

\* LRTable::lookup, line 357 (under the table's own mutex): the active
\* generation, then the previous one; a hit in the previous generation is
\* promoted, copied into the active arena and inserted there, and when the
\* arena refuses the copy the previous generation's pointer is returned
Lookup(t) ==
    /\ ~ub
    /\ tl[t].pc = "lookup"
    /\ LET p == tl[t].state.pos
           src == ttPrev[p]
           n == Len(heap[src].hots)
           copy == <<gen, used + n + 1>>
       IN
       IF ttActive[p] # NULL
       THEN /\ tl' = [tl EXCEPT ![t].pc = "cas1", ![t].found = ttActive[p]]
            /\ UNCHANGED <<aux, root_state, cap, heap, ttActive, ttPrev, gen, used, full,
                           flip_lock, counters, budget, ub>>
       ELSE IF src = NULL
       THEN /\ tl' = [tl EXCEPT ![t].pc = "create"]
            /\ UNCHANGED <<aux, root_state, cap, heap, ttActive, ttPrev, gen, used, full,
                           flip_lock, counters, budget, ub>>
       ELSE IF ~HotsLive(src)
       THEN Undefined(t)
       ELSE IF Fits(n + 1)
       THEN /\ heap' = (copy :> SearchNodeNew(p, heap[src].flag,
                                  CopyStats(NewHots(p), heap[src].hots), gen))
                       @@ heap
            /\ used' = used + n + 1
            /\ ttActive' = [ttActive EXCEPT ![p] = copy]
            /\ tl' = [tl EXCEPT ![t].pc = "cas1", ![t].found = copy]
            /\ UNCHANGED <<aux, root_state, cap, ttPrev, gen, full, flip_lock, counters,
                           budget, ub>>
       ELSE /\ full' = TRUE
            /\ tl' = [tl EXCEPT ![t].pc = "cas1", ![t].found = src]
            /\ UNCHANGED <<aux, root_state, cap, heap, ttActive, ttPrev, gen, used,
                           flip_lock, counters, budget, ub>>

\* what descend returns when the compare_exchange of line 358 fails:
\* line 365 returns &*child, the pointer loaded at line 352
CasLostResult(child, winner) == child

\* lines 358-366: link the node the table had
CasFound(t) ==
    /\ ~ub
    /\ tl[t].pc = "cas1"
    /\ IF ~EdgeLive(tl[t].choice)
       THEN Undefined(t)
       ELSE LET e == tl[t].choice
                now == Hot(e).child
            IN
            /\ heap' = IF now = NULL
                       THEN Returned([heap EXCEPT ![e.n].hots[e.i].child = tl[t].found],
                                     e, tl[t].dstart, TRUE)
                       ELSE Returned(heap, e, tl[t].dstart, TRUE)
            /\ tl' = IF now = NULL
                     THEN [tl EXCEPT ![t].pc = "lock", ![t].node = tl[t].found,
                              ![t].via = "cas_found"]
                     ELSE [tl EXCEPT ![t].pc = "lock",
                              ![t].node = CasLostResult(tl[t].child, now),
                              ![t].via = "cas_found_lost", ![t].seen = now]
            /\ UNCHANGED <<aux, root_state, cap, ttActive, ttPrev, gen, used, full,
                           flip_lock, counters, budget, ub>>

\* line 370 and create_node (lines 163-176): flag, tb_hits, the edge slice
CreateNode(t) ==
    /\ ~ub
    /\ tl[t].pc = "create"
    /\ LET p == tl[t].state.pos
           fl == evaluate_state_flag(p)
           n == Len(available_moves(p))
       IN
       /\ tb_hits' = IF is_tablebase(fl) THEN tb_hits + 1 ELSE tb_hits
       /\ IF Fits(n)
          THEN /\ used' = used + n
               /\ full' = full
               /\ tl' = [tl EXCEPT ![t].pc = "lookup_into",
                            ![t].created_here = SearchNodeNew(p, fl, NewHots(p), gen)]
          ELSE /\ used' = used
               /\ full' = TRUE
               /\ tl' = [tl EXCEPT ![t].pc = "full_lock", ![t].failgen = gen]
    /\ UNCHANGED <<aux, root_state, cap, heap, ttActive, ttPrev, gen, flip_lock,
                   num_nodes, playouts, max_depth, next_info, budget, ub>>

\* LRTable::lookup_into, line 372: copy the statistics of an entry of either
\* generation into the edges of the node being built
LookupInto(t) ==
    /\ ~ub
    /\ tl[t].pc = "lookup_into"
    /\ LET p == tl[t].state.pos
           src == IF ttActive[p] # NULL THEN ttActive[p] ELSE ttPrev[p]
       IN
       IF src = NULL
       THEN /\ tl' = [tl EXCEPT ![t].pc = "alloc_node"]
            /\ UNCHANGED <<aux, root_state, cap, heap, ttActive, ttPrev, gen, used, full,
                           flip_lock, counters, budget, ub>>
       ELSE IF ~HotsLive(src) \/ tl[t].created_here.hgen < gen - 1
       THEN Undefined(t)
       ELSE /\ tl' = [tl EXCEPT ![t].pc = "alloc_node",
                         ![t].created_here.hots = CopyStats(@, heap[src].hots)]
            /\ UNCHANGED <<aux, root_state, cap, heap, ttActive, ttPrev, gen, used, full,
                           flip_lock, counters, budget, ub>>

\* lines 374-376: the node's own slot, and the move into it
AllocNode(t) ==
    /\ ~ub
    /\ tl[t].pc = "alloc_node"
    /\ IF Fits(1)
       THEN /\ heap' = (<<gen, used + 1>> :> tl[t].created_here) @@ heap
            /\ used' = used + 1
            /\ full' = full
            /\ tl' = [tl EXCEPT ![t].pc = "cas2", ![t].created = <<gen, used + 1>>]
       ELSE /\ heap' = heap
            /\ used' = used
            /\ full' = TRUE
            /\ tl' = [tl EXCEPT ![t].pc = "full_lock", ![t].failgen = gen]
    /\ UNCHANGED <<aux, root_state, cap, ttActive, ttPrev, gen, flip_lock, counters,
                   budget, ub>>

\* lines 377-387: link the node just created, or return the racer's
CasCreated(t) ==
    /\ ~ub
    /\ tl[t].pc = "cas2"
    /\ IF ~EdgeLive(tl[t].choice)
       THEN Undefined(t)
       ELSE LET e == tl[t].choice
                now == Hot(e).child
            IN
            /\ heap' = IF now = NULL
                       THEN [heap EXCEPT ![e.n].hots[e.i].child = tl[t].created]
                       ELSE Returned(heap, e, tl[t].dstart, TRUE)
            /\ tl' = IF now = NULL
                     THEN [tl EXCEPT ![t].pc = "insert"]
                     ELSE [tl EXCEPT ![t].pc = "lock", ![t].node = now,
                              ![t].via = "cas_created_lost", ![t].seen = now]
            /\ UNCHANGED <<aux, root_state, cap, ttActive, ttPrev, gen, used, full,
                           flip_lock, counters, budget, ub>>

\* LRTable::insert, lines 389 and 394: insert into the active generation, or
\* find the entry that is already there
Insert(t) ==
    /\ ~ub
    /\ tl[t].pc = "insert"
    /\ LET p == tl[t].state.pos IN
       IF ttActive[p] # NULL
       THEN /\ tl' = [tl EXCEPT ![t].pc = "store", ![t].found = ttActive[p]]
            /\ UNCHANGED <<aux, root_state, cap, heap, ttActive, ttPrev, gen, used, full,
                           flip_lock, counters, budget, ub>>
       ELSE /\ ttActive' = [ttActive EXCEPT ![p] = tl[t].created]
            /\ heap' = Returned(heap, tl[t].choice, tl[t].dstart, TRUE)
            /\ tl' = [tl EXCEPT ![t].pc = "lock", ![t].node = tl[t].created,
                         ![t].via = "created"]
            /\ UNCHANGED <<aux, root_state, cap, ttPrev, gen, used, full, flip_lock,
                           counters, budget, ub>>

\* descend returning the existing entry without redirecting the edge to it
StoreForgotten(t) ==
    /\ ~ub
    /\ tl[t].pc = "store"
    /\ heap' = Returned(heap, tl[t].choice, tl[t].dstart, TRUE)
    /\ tl' = [tl EXCEPT ![t].pc = "lock", ![t].node = tl[t].found,
                 ![t].via = "existing"]
    /\ UNCHANGED <<aux, root_state, cap, ttActive, ttPrev, gen, used, full,
                   flip_lock, counters, budget, ub>>

\* lines 390-392: redirect the edge to the entry the table already had
StoreExisting(t) ==
    /\ ~ub
    /\ tl[t].pc = "store"
    /\ IF ~EdgeLive(tl[t].choice)
       THEN Undefined(t)
       ELSE LET e == tl[t].choice IN
            /\ heap' = Returned([heap EXCEPT ![e.n].hots[e.i].child = tl[t].found],
                                e, tl[t].dstart, TRUE)
            /\ tl' = [tl EXCEPT ![t].pc = "lock", ![t].node = tl[t].found,
                         ![t].via = "existing"]
            /\ UNCHANGED <<aux, root_state, cap, ttActive, ttPrev, gen, used, full,
                           flip_lock, counters, budget, ub>>

(* ------------------- playout: the ArenaError::Full arm ----------------- *)
\* line 288: take flip_lock
FullLock(t) ==
    /\ ~ub
    /\ tl[t].pc = "full_lock"
    /\ flip_lock = NoThread
    /\ flip_lock' = t
    /\ tl' = [tl EXCEPT ![t].pc = "full_check"]
    /\ UNCHANGED <<aux, root_state, cap, heap, ttActive, ttPrev, gen, used, full,
                   counters, budget, ub>>

\* LRTable::is_arena_full
is_arena_full == full

\* the handler without the is_arena_full() test
FlipAlways == TRUE

\* line 289: whether the handler flips
ShouldFlip == is_arena_full

\* the nodes a flip leaves: the statics, and the arena that becomes previous
Survivors(h, g) == {p \in DOMAIN h : p \in Statics \/ p[1] >= g}

\* lines 289-290, SearchTree::flip_tables and LRTable::flip_tables: swap the
\* generations, reset the arena and the map that become active
FullCheck(t) ==
    /\ ~ub
    /\ tl[t].pc = "full_check"
    /\ flip_lock = t
    /\ IF ShouldFlip
       THEN /\ ttPrev' = ttActive
            /\ ttActive' = EmptyTable
            /\ gen' = gen + 1
            /\ used' = 0
            /\ full' = FALSE
            /\ heap' = [p \in Survivors(heap, gen) |-> heap[p]]
            /\ tl' = [tl EXCEPT ![t].pc = "clear", ![t].ci = 1,
                         ![t].did_flip = TRUE]
       ELSE /\ tl' = [tl EXCEPT ![t].pc = "full_ret"]
            /\ UNCHANGED <<heap, ttActive, ttPrev, gen, used, full>>
    /\ UNCHANGED <<aux, root_state, cap, flip_lock, counters, budget, ub>>

\* line 291 and SearchNode::clear_children_links (lines 91-97): one store
\* of null per root edge
ClearChildrenLinks(t) ==
    /\ ~ub
    /\ tl[t].pc = "clear"
    /\ flip_lock = t
    /\ LET n == Len(heap[ROOT_NODE].hots) IN
       IF tl[t].ci > n
       THEN /\ tl' = [tl EXCEPT ![t].pc = "full_ret"]
            /\ heap' = heap
       ELSE /\ heap' = [heap EXCEPT ![ROOT_NODE].hots[tl[t].ci].child = NULL]
            /\ tl' = [tl EXCEPT ![t].ci = @ + 1,
                         ![t].pc = IF tl[t].ci = n THEN "full_ret" ELSE "clear"]
    /\ UNCHANGED <<aux, root_state, cap, ttActive, ttPrev, gen, used, full, flip_lock,
                   counters, budget, ub>>

\* line 293: return true; the guard is dropped
FullReturn(t) ==
    /\ ~ub
    /\ tl[t].pc = "full_ret"
    /\ flip_lock = t
    /\ flip_lock' = NoThread
    /\ tl' = [tl EXCEPT ![t].pc = "idle", ![t].ret = "true"]
    /\ UNCHANGED <<aux, root_state, cap, heap, ttActive, ttPrev, gen, used, full,
                   counters, budget, ub>>

(* ------------------ playout: leaf value, backup, counters -------------- *)
\* the override of evaln done for the terminal flags only
FlagValueTerminalOnly(fl, evaln) ==
    CASE fl = "TerminalWin"  -> SCALE
      [] fl = "TerminalLoss" -> -SCALE
      [] fl = "TerminalDraw" -> 0
      [] OTHER               -> evaln

\* lines 300-305: the flag of the node the descent ended at overrides evaln
FlagValue(fl, evaln) ==
    CASE fl \in {"TerminalWin", "TablebaseWin"}   -> SCALE
      [] fl \in {"TerminalLoss", "TablebaseLoss"} -> -SCALE
      [] fl \in {"TerminalDraw", "TablebaseDraw"} -> 0
      [] OTHER                                    -> evaln

\* the leaf value without the negation of line 310
LeafValueNotNegated(fl, evaln, s) == FlagValue(fl, evaln)

\* lines 307-311: negated when white is to move at the leaf
LeafValue(fl, evaln, s) ==
    IF side_to_move(s.pos) = "White"
    THEN -FlagValue(fl, evaln)
    ELSE FlagValue(fl, evaln)

\* lines 300-313: the value handed to finish_playout
Normalize(t) ==
    /\ ~ub
    /\ tl[t].pc = "norm"
    /\ IF ~NodeLive(tl[t].node)
       THEN Undefined(t)
       ELSE LET v == LeafValue(heap[tl[t].node].flag, tl[t].evaln, tl[t].state) IN
            /\ tl' = [tl EXCEPT ![t].pc = "backup", ![t].evaln = v,
                         ![t].evaln_value = v, ![t].bi = Len(tl[t].path)]
            /\ UNCHANGED <<aux, root_state, cap, heap, ttActive, ttPrev, gen, used, full,
                           flip_lock, counters, budget, ub>>

\* HotMoveInfo::up (lines 140-143)
Up(h, e, evaln) ==
    [h EXCEPT ![e.n].hots[e.i].sum_evaluations = @ + (evaln + VIRTUAL_LOSS),
              ![e.n].hots[e.i].ups = @ + 1]

\* finish_playout handing the same value to every edge of the path
FinishPlayoutSameSign(t) ==
    /\ ~ub
    /\ tl[t].pc = "backup"
    /\ tl[t].bi >= 1
    /\ IF ~EdgeLive(tl[t].path[tl[t].bi])
       THEN Undefined(t)
       ELSE /\ heap' = Up(heap, tl[t].path[tl[t].bi], tl[t].evaln_value)
            /\ tl' = [tl EXCEPT ![t].bi = @ - 1]
            /\ UNCHANGED <<aux, root_state, cap, ttActive, ttPrev, gen, used, full,
                           flip_lock, counters, budget, ub>>

\* finish_playout (lines 397-403): one edge per step, from the leaf to the
\* root, the sign alternating
FinishPlayout(t) ==
    /\ ~ub
    /\ tl[t].pc = "backup"
    /\ tl[t].bi >= 1
    /\ IF ~EdgeLive(tl[t].path[tl[t].bi])
       THEN Undefined(t)
       ELSE /\ heap' = Up(heap, tl[t].path[tl[t].bi], tl[t].evaln_value)
            /\ tl' = [tl EXCEPT ![t].bi = @ - 1, ![t].evaln_value = -@]
            /\ UNCHANGED <<aux, root_state, cap, ttActive, ttPrev, gen, used, full,
                           flip_lock, counters, budget, ub>>

\* line 316: path.len() - 1 in usize.  With an empty path the subtraction
\* overflows: it panics in a build with overflow checks and wraps otherwise.
Depth(len) ==
    IF len >= 1
    THEN {[panic |-> FALSE, depth |-> len - 1]}
    ELSE {[panic |-> TRUE, depth |-> 0], [panic |-> FALSE, depth |-> UsizeMax]}

\* lines 315-326: depth accounting, the playout counter and the time check,
\* for a given answer of time_management.is_after_end()
StatsAt(t, after_end) ==
    /\ ~ub
    /\ tl[t].pc = "backup"
    /\ tl[t].bi = 0
    /\ \E d \in Depth(Len(tl[t].path)) :
         IF d.panic
         THEN /\ tl' = [tl EXCEPT ![t].pc = "panicked"]
              /\ UNCHANGED counters
         ELSE /\ num_nodes' = (num_nodes + d.depth) % (UsizeMax + 1)
              /\ max_depth' = Max(max_depth, d.depth)
              /\ playouts' = playouts + 1
              /\ tb_hits' = tb_hits
              /\ next_info' = next_info
              /\ tl' = IF playouts' % 128 = 0 /\ after_end
                       THEN [tl EXCEPT ![t].pc = "idle", ![t].ret = "false"]
                       ELSE IF playouts' % 65536 = 0
                       THEN [tl EXCEPT ![t].pc = "info", ![t].count = playouts']
                       ELSE [tl EXCEPT ![t].pc = "idle", ![t].ret = "true"]
    /\ UNCHANGED <<aux, root_state, cap, heap, ttActive, ttPrev, gen, used, full,
                   flip_lock, budget, ub>>

\* the last step of playout() when nothing is known of the time
Stats(t) == \E after_end \in BOOLEAN : StatsAt(t, after_end)

\* line 327: read the elapsed seconds
InfoElapsed(t) ==
    /\ ~ub
    /\ tl[t].pc = "info"
    /\ tl' = [tl EXCEPT ![t].pc = "info_max", ![t].elapsed = clock]
    /\ UNCHANGED <<aux, root_state, cap, heap, ttActive, ttPrev, gen, used, full,
                   flip_lock, counters, budget, ub>>

\* whether the periodic info line is printed: never twice for a value
PrintsUnlessSame(previous, elapsed) == previous # elapsed

\* line 331: whether the periodic info line is printed
Prints(previous, elapsed) == previous < elapsed

\* lines 329-336: the fetch_max on next_info, the periodic info line, return
InfoMax(t) ==
    /\ ~ub
    /\ tl[t].pc = "info_max"
    /\ next_info' = Max(next_info, tl[t].elapsed)
    /\ printed' = IF Prints(next_info, tl[t].elapsed)
                  THEN Append(printed, tl[t].elapsed)
                  ELSE printed
    /\ tl' = [tl EXCEPT ![t].pc = "idle", ![t].ret = "true"]
    /\ UNCHANGED <<root_state, cap, heap, ttActive, ttPrev, gen, used, full,
                   flip_lock, num_nodes, playouts, max_depth, tb_hits, budget, ub,
                   time_over, clock, call>>

(* --------------------------- specifications ---------------------------- *)
\* The search from its construction, each worker starting MaxPlayouts calls.
\* The playout counter stays far below 65536 here, so lines 327-334 are not
\* reached: InfoElapsed and InfoMax are steps of TimedSpec below.
Step(t) ==
    \/ Start(t)
    \/ TopLock(t)
    \/ TopUnlock(t)
    \/ Choose(t)
    \/ Down2(t)
    \/ CheckVisits(t)
    \/ DescendLoad(t)
    \/ Lookup(t)
    \/ CasFound(t)
    \/ CreateNode(t)
    \/ LookupInto(t)
    \/ AllocNode(t)
    \/ CasCreated(t)
    \/ Insert(t)
    \/ StoreExisting(t)
    \/ FullLock(t)
    \/ FullCheck(t)
    \/ ClearChildrenLinks(t)
    \/ FullReturn(t)
    \/ Normalize(t)
    \/ FinishPlayout(t)
    \/ Stats(t)

Next == \E t \in Threads : Step(t)

Spec == Init /\ [][Next]_vars

(* ------------------------------- claims -------------------------------- *)
\* the program points of one loop iteration between the drop of the top
\* guard and the end of the iteration
MidIteration == {"choose", "down2", "visits", "desc", "lookup", "cas1", "create",
                 "lookup_into", "alloc_node", "cas2", "insert", "store"}

\* the program points inside descend()
InsideDescend == {"desc", "lookup", "cas1", "create", "lookup_into",
                  "alloc_node", "cas2", "insert", "store"}

\* C1: while a thread has just run flip_tables() (it holds flip_lock and is
\* about to clear the root's links), no other thread is in the middle of a
\* loop iteration.
C1_FlipIsBarrier ==
    \A t \in Threads, u \in Threads :
        (t # u /\ tl[t].pc = "clear" /\ tl[t].ci = 1)
            => tl[u].pc \notin MidIteration

\* C2: when the ArenaFull handler that has flipped releases flip_lock, every
\* root edge has a null child.
C2_RootLinksNullAfterFlip ==
    \A t \in Threads :
        (tl[t].pc = "full_ret" /\ tl[t].did_flip)
            => \A i \in 1..Len(heap[ROOT_NODE].hots) :
                   heap[ROOT_NODE].hots[i].child = NULL

Children(n) ==
    IF n \in DOMAIN heap
    THEN {heap[n].hots[i].child : i \in 1..Len(heap[n].hots)} \ {NULL}
    ELSE {}

RECURSIVE ReachFrom(_, _)
ReachFrom(frontier, seen) ==
    IF frontier = {}
    THEN seen
    ELSE ReachFrom((UNION {Children(n) : n \in frontier}) \ (seen \cup frontier),
                   seen \cup frontier)

ReachableFromRoot == ReachFrom({ROOT_NODE}, {})

\* a flip is in progress: flip_tables() has run and clear_children_links()
\* has not finished
FlipInProgress == \E t \in Threads : tl[t].pc = "clear"

\* C3: every node reachable from the root through non-null child pointers
\* is a node of the active or of the previous arena, never a slot of an arena
\* that a flip has reset (in every state outside the flip itself).
C3_ReachableNodesLive ==
    ~FlipInProgress => \A p \in ReachableFromRoot : NodeLive(p)

\* C4: at every observation point, for every edge,
\* |sum_evaluations + visits * VIRTUAL_LOSS| <= visits * 2 * SCALE.
C4_SumBounded ==
    \A e \in Edges :
        Abs(Hot(e).sum_evaluations + Hot(e).visits * VIRTUAL_LOSS)
            <= Hot(e).visits * 2 * SCALE

\* some thread is between the two atomic updates of down() on edge e
MidDown(e) == \E t \in Threads : tl[t].pc = "down2" /\ tl[t].choice = e

\* C5: on a fresh edge, once k playouts have each completed down() and none
\* has called up(), visits = k and sum_evaluations = -k * SCALE.
C5_VirtualLossCoherent ==
    \A e \in Edges :
        (~Hot(e).warm /\ Hot(e).downs >= 1 /\ Hot(e).ups = 0 /\ ~MidDown(e))
            => /\ Hot(e).visits = Hot(e).downs
               /\ Hot(e).sum_evaluations = -(Hot(e).downs * SCALE)

C5_Witness ==
    \E e \in Edges :
        /\ ~Hot(e).warm /\ Hot(e).downs = 2 /\ Hot(e).ups = 0 /\ ~MidDown(e)
        /\ Hot(e).visits = 2

\* thread t has run one playout to its end and no other playout has started
OnlyPlayoutOver(t) ==
    /\ budget[t] = MaxPlayouts - 1
    /\ \A u \in Threads \ {t} : budget[u] = MaxPlayouts
    /\ tl[t].pc \in {"idle", "panicked", "ub"}

\* C6: a single playout from the stalemate root (position 5) completes with
\* playouts = 1 and max_depth = 0, having backed up evaln = 0.
C6_StalemateCounters ==
    \A t \in Threads :
        (root_state = 5 /\ OnlyPlayoutOver(t))
            => /\ tl[t].pc = "idle"
               /\ playouts = 1
               /\ max_depth = 0
               /\ tl[t].evaln = 0

\* C7 as stated: from the root where white is mated (position 6) the root
\* flag is TerminalLoss and the value passed to the backup is -SCALE.
C7_MatedRootBacksUpMinusScale ==
    \A t \in Threads :
        (root_state = 6 /\ tl[t].pc = "backup")
            => /\ heap[ROOT_NODE].flag = "TerminalLoss"
               /\ tl[t].evaln = -SCALE

\* C7 as amended: the flag is TerminalLoss and gives -SCALE, which line 310
\* negates because white is to move: the value passed to the backup is +SCALE.
C7_MatedRootBacksUpPlusScale ==
    \A t \in Threads :
        (root_state = 6 /\ tl[t].pc = "backup")
            => /\ heap[ROOT_NODE].flag = "TerminalLoss"
               /\ tl[t].evaln = SCALE
               /\ tl[t].path = <<>>

C7_Witness == \E t \in Threads : root_state = 6 /\ tl[t].pc = "backup"

\* C8: when the compare_exchange after a table hit fails, descend returns
\* the node the winning compare_exchange installed, never null.
C8_LostCasReturnsWinner ==
    \A t \in Threads :
        tl[t].via = "cas_found_lost"
            => (tl[t].node = tl[t].seen /\ tl[t].node # NULL)

\* some thread is inside descend() for edge e
InDescend(e) == \E t \in Threads : tl[t].pc \in InsideDescend /\ tl[t].choice = e

Quiescent == \A t \in Threads : tl[t].pc = "idle"

\* C11: whenever no playout is in progress, every down() on an edge has
\* been followed by its up(): the edge has as many up() as down() calls, so
\* no virtual-loss debit is left in sum_evaluations.
C11_DebitsRestored ==
    Quiescent => \A e \in Edges : Hot(e).downs = Hot(e).ups

(* ------------------- functions applied to drawn arguments -------------- *)
\* everything but call
main == <<root_state, cap, heap, ttActive, ttPrev, gen, used, full, flip_lock,
          num_nodes, playouts, max_depth, tb_hits, next_info, tl, budget, ub,
          time_over, clock, printed>>

\* nnue_eval.rs, feature_indices: the two strides
COLOUR_STRIDE == 64 * 6
PIECE_STRIDE == 64

\* shakmaty: Square is 0..63 (a1 = 0, h8 = 63), Role is 1..6 (pawn = 1),
\* Color is 0 for black and 1 for white
Squares == 0..63
Roles == 1..6
Colors == {0, 1}

\* shakmaty Square::flip_vertical: the same file on the mirrored rank
flip_vertical(sq) == (7 - (sq \div 8)) * 8 + (sq % 8)

\* 1 ^ x on a bit
Xor1(x) == (1 + x) % 2

\* feature_indices with the black index not mirrored
feature_indices_unmirrored(sq, piece_type, colour) ==
    <<Xor1(colour) * COLOUR_STRIDE + (piece_type - 1) * PIECE_STRIDE + sq,
      Xor1(Xor1(colour)) * COLOUR_STRIDE + (piece_type - 1) * PIECE_STRIDE + sq>>

\* nnue_eval.rs lines 94-106
feature_indices(sq, piece_type, colour) ==
    LET pt == piece_type - 1
        c == Xor1(colour)
        white_idx == c * COLOUR_STRIDE + pt * PIECE_STRIDE + sq
        black_idx == Xor1(c) * COLOUR_STRIDE + pt * PIECE_STRIDE + flip_vertical(sq)
    IN  <<white_idx, black_idx>>

\* Flag::flip applied to a flag, and again to the result
ApplyFlip ==
    /\ \E f \in Flags :
          call' = [fn |-> "flip", f |-> f, r |-> flip(f), rr |-> flip(flip(f))]
    /\ UNCHANGED main

\* evaluate_state_flag applied to a position
ApplyEvaluateStateFlag ==
    /\ \E p \in Positions :
          call' = [fn |-> "evaluate_state_flag", p |-> p,
                   r |-> evaluate_state_flag(p)]
    /\ UNCHANGED main

\* feature_indices applied to a piece, and to the same piece seen from the
\* other side: the mirrored square and the opposite colour
ApplyFeatureIndices ==
    /\ \E sq \in Squares, piece_type \in Roles, colour \in Colors :
          call' = [fn |-> "feature_indices", sq |-> sq, piece_type |-> piece_type,
                   colour |-> colour,
                   r |-> feature_indices(sq, piece_type, colour),
                   m |-> feature_indices(flip_vertical(sq), piece_type,
                                         1 - colour)]
    /\ UNCHANGED main

(* ---------------------- nnue_eval.rs: the value network --------------- *)
\* LAYER_1_SIZE is 768 in the source; the layer is cut down to two units
LAYER_1_SIZE == 2
MaxPieces == 2
MaxForwardCalls == 2

CR_MIN == 0
CR_MAX == 255
NNUE_SCALE == 400
QA == 255
QB == 64
QAB == QA * QB

\* i16 arithmetic: the value a wrapping build stores
Wrap16(x) == ((x + 32768) % 65536) - 32768

InI16(x) == x >= -32768 /\ x <= 32767

\* the division of i32: towards zero
TruncDiv(a, b) == IF a >= 0 THEN a \div b ELSE -((-a) \div b)

\* The parameter block NNUE.  A parameter set is drawn as a record of small
\* numbers that the four arrays are spread out from, so that the weights of
\* different features differ, large weights (s) and a large bias (b) occur,
\* and the two halves of output_weights differ.
ParamSets ==
    [a : {1, 5}, c : {0}, s : {1, 9000}, b : {0, 30000},
     o : {<<1, -2>>, <<3, 3>>, <<-2, 1>>}, ob : {7}]

\* feature_weights[k], k from 0
feature_weights(P, k) == P.s * (((k * P.a + P.c) % 7) - 3)

\* feature_bias as an array of LAYER_1_SIZE entries
feature_bias(P) == [j \in 1..LAYER_1_SIZE |-> P.b + j - 1]

\* output_weights[k], k from 0: the first half weighs us, the second them
output_weights(P, k) == (IF k < LAYER_1_SIZE THEN P.o[1] ELSE P.o[2]) + (k % 2)

output_bias(P) == P.ob

\* the pieces boards are made of: <<square, role, colour>>; two pieces and
\* the pieces they become when the board is mirrored
PieceSet == {<<0, 1, 1>>, <<9, 6, 0>>, <<56, 1, 0>>, <<49, 6, 1>>}

\* a board: pieces on different squares, and the side to move
Boards ==
    {bd \in [pieces : SUBSET PieceSet, turn : Colors] :
        /\ Cardinality(bd.pieces) <= MaxPieces
        /\ \A x, y \in bd.pieces : x[1] = y[1] => x = y}

\* the board with every piece's colour swapped and its square flipped
\* vertically, the other side to move
Mirror(bd) ==
    [pieces |-> {<<flip_vertical(x[1]), x[2], 1 - x[3]>> : x \in bd.pieces},
     turn |-> 1 - bd.turn]

\* the same with the side to move kept
MirrorPieces(bd) == [Mirror(bd) EXCEPT !.turn = bd.turn]

\* lines 121-129: white before black, roles from pawn to king, the squares
\* of a bitboard in ascending order
VisitRank(x) == (1 - x[3]) * 1000 + x[2] * 100 + x[1]

RECURSIVE VisitOrder(_)
VisitOrder(pieces) ==
    IF pieces = {} THEN <<>>
    ELSE LET x == CHOOSE y \in pieces : \A z \in pieces : VisitRank(y) <= VisitRank(z)
         IN  <<x>> \o VisitOrder(pieces \ {x})

\* NNUEState::new; ov is history: an addition has left the range of i16,
\* where a build with overflow checks panics
NNUEStateNew(P) == [white |-> feature_bias(P), black |-> feature_bias(P), ov |-> FALSE]

\* add_to_all, lines 159-168
add_to_all(input, P, offset_add) ==
    [j \in 1..LAYER_1_SIZE |-> Wrap16(input[j] + feature_weights(P, offset_add + j - 1))]

\* whether an addition of add_to_all overflows
add_overflows(input, P, offset_add) ==
    \E j \in 1..LAYER_1_SIZE : ~InI16(input[j] + feature_weights(P, offset_add + j - 1))

\* update_feature::<Activate>, lines 139-150
update_feature(st, P, piece_type, colour, sq) ==
    LET idx == feature_indices(sq, piece_type, colour)
    IN  [white |-> add_to_all(st.white, P, idx[1] * LAYER_1_SIZE),
         black |-> add_to_all(st.black, P, idx[2] * LAYER_1_SIZE),
         ov |-> \/ st.ov
                \/ add_overflows(st.white, P, idx[1] * LAYER_1_SIZE)
                \/ add_overflows(st.black, P, idx[2] * LAYER_1_SIZE)]

\* lines 182-186
screlu(x) ==
    LET y == IF x < CR_MIN THEN CR_MIN ELSE IF x > CR_MAX THEN CR_MAX ELSE x
    IN  y * y

RECURSIVE SumTo(_, _, _, _)
\* the sum of screlu(v[i]) * weights[base + i - 1] over the first n entries
SumTo(v, P, base, n) ==
    IF n = 0 THEN 0
    ELSE SumTo(v, P, base, n - 1) + screlu(v[n]) * output_weights(P, base + n - 1)

\* lines 190-203
screlu_flatten(us, them, P) ==
    TruncDiv(SumTo(us, P, 0, LAYER_1_SIZE) + SumTo(them, P, LAYER_1_SIZE, LAYER_1_SIZE), QA)

\* Accumulator::evaluate with us always the white vector
evaluate_from_white(st, P, stm) ==
    TruncDiv((screlu_flatten(st.white, st.black, P) + output_bias(P)) * NNUE_SCALE, QAB)

\* Accumulator::evaluate, lines 29-36
evaluate(st, P, stm) ==
    LET us == IF stm = 1 THEN st.white ELSE st.black
        them == IF stm = 1 THEN st.black ELSE st.white
    IN  TruncDiv((screlu_flatten(us, them, P) + output_bias(P)) * NNUE_SCALE, QAB)

RECURSIVE Activated(_, _, _)
\* the loops of lines 121-133 over the pieces in order
Activated(st, P, order) ==
    IF order = <<>> THEN st
    ELSE Activated(update_feature(st, P, order[1][2], order[1][3], order[1][1]),
                   P, Tail(order))

\* NNUEState::forward, lines 120-136: the state it leaves and its result
forward(st, P, board) ==
    LET after == Activated(st, P, VisitOrder(board.pieces))
    IN  [state |-> after, value |-> evaluate(after, P, board.turn)]

\* NNUEState::new, lines 110-117, with the parameter block the build includes
ApplyNew ==
    /\ call = NoCall
    /\ \E P \in ParamSets :
          call' = [fn |-> "new", params |-> P, board |-> [pieces |-> {}, turn |-> 1],
                   state |-> NNUEStateNew(P), r |-> 0, calls |-> 0]
    /\ UNCHANGED main

\* forward on the NNUEState, as new() or the last forward left it
ApplyForward ==
    /\ call.fn \in {"new", "forward"}
    /\ call.calls < MaxForwardCalls
    /\ \E board \in Boards :
          LET res == forward(call.state, call.params, board)
          IN  call' = [fn |-> "forward", params |-> call.params, board |-> board,
                       state |-> res.state, r |-> res.value,
                       calls |-> call.calls + 1]
    /\ UNCHANGED main

FnInit == Init /\ root_state = 5

FnNext ==
    \/ ApplyFlip
    \/ ApplyEvaluateStateFlag
    \/ ApplyFeatureIndices

\* one NNUEState and the calls of forward on it
NnueNext == ApplyNew \/ ApplyForward

NnueSpec == FnInit /\ [][NnueNext]_vars

FnSpec == FnInit /\ [][FnNext]_vars

\* the flag of a position for the side to move, in the words of C12
FlagOfMover(p) ==
    IF available_moves(p) = <<>>
    THEN (IF is_check(p) THEN "TerminalLoss" ELSE "TerminalDraw")
    ELSE CASE probe_tablebase_wdl(p) = "Win"  -> "TablebaseWin"
           [] probe_tablebase_wdl(p) = "Loss" -> "TablebaseLoss"
           [] probe_tablebase_wdl(p) = "Draw" -> "TablebaseDraw"
           [] OTHER                           -> "Standard"

\* a win for white is a loss for black and conversely
WinsOfWhite == {"TerminalWin", "TablebaseWin"}
LossesOfWhite == {"TerminalLoss", "TablebaseLoss"}

\* C12: evaluate_state_flag gives, for an empty move list, TerminalLoss of
\* the mover in check and TerminalDraw otherwise without asking the
\* tablebase, else the tablebase's answer, else Standard; flipped iff black
\* is to move, so that the flag is white's: a win of white is the mover's
\* win when white moves and the mover's loss when black moves.
C12_FlagFromWhitesView ==
    call.fn = "evaluate_state_flag" =>
        LET p == call.p
            mover == FlagOfMover(p)
        IN  /\ (side_to_move(p) = "White" => call.r = mover)
            /\ (side_to_move(p) = "Black" =>
                   /\ (mover \in {"Standard", "TerminalDraw", "TablebaseDraw"}
                          => call.r = mover)
                   /\ (mover = "TerminalLoss" => call.r = "TerminalWin")
                   /\ (mover = "TablebaseLoss" => call.r = "TablebaseWin")
                   /\ (mover = "TablebaseWin" => call.r = "TablebaseLoss"))
            /\ (available_moves(p) = <<>> => is_terminal(call.r))

\* black to move with a tablebase win: stored as white's loss
C12_Witness ==
    /\ call.fn = "evaluate_state_flag"
    /\ side_to_move(call.p) = "Black"
    /\ probe_tablebase_wdl(call.p) = "Win"
    /\ call.r = "TablebaseLoss"

\* C13: flip is an involution, it swaps Win and Loss within the class and
\* leaves draws and Standard alone, and every flag is exactly one of
\* Standard, terminal, tablebase.
C13_FlipInvolution ==
    call.fn = "flip" =>
        /\ call.rr = call.f
        /\ is_terminal(call.r) = is_terminal(call.f)
        /\ is_tablebase(call.r) = is_tablebase(call.f)
        /\ (call.f \in WinsOfWhite <=> call.r \in LossesOfWhite)
        /\ (call.f \in LossesOfWhite <=> call.r \in WinsOfWhite)
        /\ (call.f \notin (WinsOfWhite \cup LossesOfWhite) => call.r = call.f)
        /\ Cardinality({b \in {call.f = "Standard", is_terminal(call.f),
                                is_tablebase(call.f)} : b}) = 1
        /\ ~(call.f = "Standard" /\ is_terminal(call.f))
        /\ ~(call.f = "Standard" /\ is_tablebase(call.f))
        /\ ~(is_terminal(call.f) /\ is_tablebase(call.f))

C13_Witness == call.fn = "flip" /\ call.f = "TablebaseWin" /\ call.r = "TablebaseLoss"

\* C20: feature_indices(s, r, c) = (c*384 + r*64 + s,
\* (1-c)*384 + r*64 + mirror_vertical(s)) with c = 0 for white, both below
\* 768, and the mirrored square with the opposite colour gives the two
\* components swapped.
C20_FeatureIndicesSymmetric ==
    call.fn = "feature_indices" =>
        LET s == call.sq
            r == call.piece_type - 1
            c == IF call.colour = 1 THEN 0 ELSE 1
            mirror == 8 * (7 - (s \div 8)) + (s % 8)
        IN  /\ call.r = <<c * 384 + r * 64 + s, (1 - c) * 384 + r * 64 + mirror>>
            /\ call.r[1] \in 0..767 /\ call.r[2] \in 0..767
            /\ call.m = <<call.r[2], call.r[1]>>

\* a black piece off the middle ranks
C20_Witness ==
    /\ call.fn = "feature_indices"
    /\ call.colour = 0 /\ call.sq = 9 /\ call.piece_type = 6
    /\ call.r = <<384 + 320 + 9, 320 + 49>>

\* (-1)^k
Sign(k) == IF k % 2 = 0 THEN 1 ELSE -1

\* the statistics of an edge, without the history kept with them
Stat(h, e) == <<h[e.n].hots[e.i].visits, h[e.n].hots[e.i].sum_evaluations>>

\* C16: in a playout with path e_0 .. e_{L-1} and normalized leaf value v,
\* down() takes VIRTUAL_LOSS from the chosen edge and adds one visit, and the
\* up() on e_i adds VIRTUAL_LOSS + (-1)^(L-1-i) * v and no visit: the net
\* change is one visit and (-1)^(L-1-i) * v; no step of the playout changes
\* the statistics of another edge.
C16_BackupAlternates ==
    [][ \A t \in Threads :
          /\ (tl[t].pc = "backup" /\ tl[t].bi >= 1 /\ tl'[t].bi = tl[t].bi - 1)
                => LET e == tl[t].path[tl[t].bi]
                       L == Len(tl[t].path)
                       i == tl[t].bi - 1
                   IN  /\ Stat(heap', e) =
                            <<Stat(heap, e)[1],
                              Stat(heap, e)[2] + VIRTUAL_LOSS
                                  + Sign(L - 1 - i) * tl[t].evaln>>
                       /\ \A f \in Edges \ {e} : Stat(heap', f) = Stat(heap, f)
          /\ (tl[t].pc = "choose" /\ tl'[t].pc = "down2")
                => LET e == tl'[t].choice
                   IN  /\ Stat(heap', e) =
                            <<Stat(heap, e)[1], Stat(heap, e)[2] - VIRTUAL_LOSS>>
                       /\ \A f \in Edges \ {e} : Stat(heap', f) = Stat(heap, f)
          /\ (tl[t].pc = "down2" /\ tl'[t].pc = "visits")
                => LET e == tl[t].choice
                   IN  /\ Stat(heap', e) =
                            <<Stat(heap, e)[1] + 1, Stat(heap, e)[2]>>
                       /\ tl'[t].path = Append(tl[t].path, e)
                       /\ \A f \in Edges \ {e} : Stat(heap', f) = Stat(heap, f) ]_vars

\* a playout has backed up a value other than 0 through a path of three
\* edges
C16_Witness ==
    \E t \in Threads :
        /\ tl[t].pc = "backup" /\ tl[t].bi = 0
        /\ Len(tl[t].path) = 3
        /\ tl[t].evaln # 0
        /\ \A i \in 1..3 : Hot(tl[t].path[i]).ups >= 1

\* how the game at position p ends for the side to move there: mated or
\* stalemated without legal moves, else what the tablebase says
OutcomeForMover(p) ==
    IF available_moves(p) = <<>>
    THEN (IF is_check(p) THEN "Loss" ELSE "Draw")
    ELSE probe_tablebase_wdl(p)

\* thread t has just computed the value it passes to finish_playout, at a
\* leaf other than the root whose node is terminal or a tablebase node
AtDecidedLeaf(t) ==
    /\ tl[t].pc = "backup"
    /\ tl[t].bi = Len(tl[t].path)
    /\ Len(tl[t].path) >= 1
    /\ tl[t].node \in DOMAIN heap
    /\ (is_terminal(heap[tl[t].node].flag) \/ is_tablebase(heap[tl[t].node].flag))

\* C17: at a terminal or tablebase leaf the value handed to the last edge
\* of the path is +SCALE when the player who made the last move has won
\* (the side to move at the leaf has lost), -SCALE when that player has
\* lost, and 0 for a draw (DRAW_NODE included), whichever colour moved last.
C17_ValueOfLastMover ==
    \A t \in Threads :
        AtDecidedLeaf(t) =>
            IF tl[t].node = DRAW_NODE
            THEN tl[t].evaln = 0
            ELSE LET o == OutcomeForMover(tl[t].state.pos)
                 IN  /\ heap[tl[t].node].pos = tl[t].state.pos
                     /\ o \in {"Win", "Loss", "Draw"}
                     /\ (o = "Loss" => tl[t].evaln = SCALE)
                     /\ (o = "Win" => tl[t].evaln = -SCALE)
                     /\ (o = "Draw" => tl[t].evaln = 0)

\* black has moved into a tablebase position that white wins
C17_Witness ==
    \E t \in Threads :
        /\ AtDecidedLeaf(t)
        /\ side_to_move(tl[t].state.pos) = "White"
        /\ is_tablebase(heap[tl[t].node].flag)
        /\ OutcomeForMover(tl[t].state.pos) = "Win"
        /\ tl[t].evaln = -SCALE

\* C18: the playout whose own down() raised an edge's visits from 0 to 1
\* takes the leaf branch for that edge: it never goes on to descend().
C18_FirstVisitIsLeaf ==
    \A t \in Threads : tl[t].pc = "desc" => ~tl[t].raised

(* ------------- the long run: the time check and the periodic info ------ *)
\* The search is followed from a state it is in after many playouts, with a
\* clock: the root is position 9, whose only move leads to position 10, a
\* tablebase position that ends every descent after one edge.
MaxClock == 1

\* how far the run is followed past the count it is taken up at. For the
\* time check: every thread can get its own multiple of 128 after the time
\* is over. For the periodic info: the next multiple of 65536 is passed.
HorizonPlayouts == 128 * (NumThreads + 1) + 8
InfoHorizon == NumThreads + 3

\* the distance of the playout counter from the count the run was taken up at
Offset == (playouts + 2) % 65536

TimedRoot == 9
TimedChild == <<1, 2>>
TimedEdge == EdgeRef(ROOT_NODE, 1)

\* the tree after k >= 2 playouts from the cold root: the first was the leaf
\* visit of the only edge (value 0), the second created the child, and each
\* but the first backed up +SCALE (position 10 is lost for its mover)
ResumedHeap(k) ==
    (ROOT_NODE :> SearchNodeNew(TimedRoot, evaluate_state_flag(TimedRoot),
                     <<[HotMoveInfoNew EXCEPT !.visits = k,
                                              !.sum_evaluations = (k - 1) * SCALE,
                                              !.child = TimedChild,
                                              !.downs = k, !.ups = k,
                                              !.dgen = 1, !.lgen = 1]>>, -1))
    @@ StaticHeap
    @@ (TimedChild :> SearchNodeNew(10, evaluate_state_flag(10), NewHots(10), 1))

\* a thread that obtained the count 65536 and has not gone on since
StalledThread ==
    [IdleThread EXCEPT !.pc = "info", !.count = 65536,
                       !.state = make_move(StateOf(TimedRoot), 10),
                       !.node = TimedChild, !.path = <<TimedEdge>>,
                       !.choice = TimedEdge, !.evaln = SCALE,
                       !.evaln_value = -SCALE, !.dstart = 1]

\* the search after k playouts, no call in progress but for a stalled one
ResumedInit(k) ==
    /\ root_state = TimedRoot
    /\ cap = ArenaCapSmall
    /\ ttPrev = EmptyTable
    /\ ttActive = [EmptyTable EXCEPT ![10] = TimedChild]
    /\ gen = 1
    /\ used = 2
    /\ full = FALSE
    /\ flip_lock = NoThread
    /\ num_nodes = 1
    /\ max_depth = 0
    /\ tb_hits = 2
    /\ budget = [t \in Threads |-> MaxPlayouts]
    /\ ub = FALSE
    /\ time_over = FALSE
    /\ call = NoCall
    /\ playouts = k
    /\ heap = ResumedHeap(k)
    /\ clock \in 0..MaxClock
    /\ \E stalled \in BOOLEAN :
          /\ stalled => k > 65536
          /\ tl = [t \in Threads |-> IF stalled /\ t = 1 THEN StalledThread
                                     ELSE IdleThread]
          \* the periodic check at 65536 has stored the second it saw
          /\ next_info = IF k > 65536 /\ ~stalled THEN clock ELSE 0
          /\ printed = IF 0 < next_info THEN <<next_info>> ELSE <<>>

\* the driver calls playout() again unless the last call returned false
KeepCallingWithin(t, horizon) ==
    /\ ~ub
    /\ tl[t].pc = "idle"
    /\ tl[t].ret # "false"
    /\ Offset < horizon
    /\ tl' = [tl EXCEPT ![t] = [IdleThread EXCEPT !.pc = "lock",
                                   !.state = StateOf(root_state),
                                   !.node = ROOT_NODE]]
    /\ UNCHANGED <<aux, root_state, cap, heap, ttActive, ttPrev, gen, used, full,
                   flip_lock, counters, budget, ub>>

\* the time check always answers that the time is over
TimedStatsNoClock(t) == StatsAt(t, TRUE)

\* lines 315-326 with is_after_end() answered by the clock
TimedStats(t) == StatsAt(t, time_over)

\* a second passes
Tick ==
    /\ clock < MaxClock
    /\ clock' = clock + 1
    /\ UNCHANGED <<root_state, cap, heap, ttActive, ttPrev, gen, used, full,
                   flip_lock, counters, tl, budget, ub, time_over, printed, call>>

\* the search time reaches its end, and stays past it
TimeUp ==
    /\ ~time_over
    /\ time_over' = TRUE
    /\ UNCHANGED <<root_state, cap, heap, ttActive, ttPrev, gen, used, full,
                   flip_lock, counters, tl, budget, ub, clock, printed, call>>

\* one playout of the resumed search up to the counters: the only edge has
\* been visited and its child is linked
Descent(t) ==
    \/ TopLock(t)
    \/ TopUnlock(t)
    \/ Choose(t)
    \/ Down2(t)
    \/ CheckVisits(t)
    \/ DescendLoad(t)
    \/ Normalize(t)
    \/ FinishPlayout(t)
    \/ TimedStats(t)

\* The run up to the end of the search time, from shortly before a multiple
\* of 128 playouts. No multiple of 65536 is passed.
StopInit == ResumedInit(128 - 2) /\ clock = 0

StopKeepCalling(t) == KeepCallingWithin(t, HorizonPlayouts)

StopStep(t) == StopKeepCalling(t) \/ Descent(t)

StopNext == TimeUp \/ \E t \in Threads : StopStep(t)

StopSpec == StopInit /\ [][StopNext]_vars

\* every thread gets to run, and a thread waiting for flip_lock gets it
StopFair ==
    /\ StopSpec
    /\ \A t \in Threads : WF_vars(StopStep(t)) /\ SF_vars(TopLock(t))

\* The run across the second multiple of 65536 playouts, with the clock.
InfoInit == ResumedInit(2 * 65536 - 2)

InfoKeepCalling(t) == KeepCallingWithin(t, InfoHorizon)

InfoStep(t) ==
    \/ InfoKeepCalling(t)
    \/ Descent(t)
    \/ InfoElapsed(t)
    \/ InfoMax(t)

InfoNext == Tick \/ TimeUp \/ \E t \in Threads : InfoStep(t)

InfoSpec == InfoInit /\ [][InfoNext]_vars

\* thread t's call of playout() returns in this step
Returns(t) == tl[t].pc # "idle" /\ tl'[t].pc = "idle"

\* this step is thread t's time check at a multiple of 128, the time over
StopsNow(t) == tl[t].pc = "backup" /\ playouts' % 128 = 0 /\ time_over

\* every thread has been told to stop
AllStopped == \A t \in Threads : tl[t].pc = "idle" /\ tl[t].ret = "false"

C15_InfoCoalesced ==
    /\ [][/\ next_info' >= next_info
          /\ \A t \in Threads :
                (tl[t].pc = "info_max" /\ tl'[t].pc = "idle")
                    => /\ tl[t].count % 65536 = 0
                       /\ (printed' # printed <=> tl[t].elapsed > next_info)
                       /\ (printed' # printed => printed' = Append(printed, tl[t].elapsed))
          /\ (printed' # printed
                => \E t \in Threads : tl[t].pc = "info_max" /\ tl'[t].pc = "idle")]_vars
    /\ [](\A i, j \in 1..Len(printed) : printed[i] = printed[j] => i = j)

\* two threads have observed the same second at multiples of 65536 and one
\* line has been printed for it
C15_Witness ==
    /\ Len(printed) = 1
    /\ \A t \in {1, 2} : /\ tl[t].pc = "idle"
                         /\ tl[t].count > 0
                         /\ tl[t].elapsed = printed[1]
    /\ tl[1].count # tl[2].count

(* ------------------------------ termination ---------------------------- *)
\* every thread gets to run, and a thread waiting for flip_lock gets it
FairSpec ==
    /\ Spec
    /\ \A t \in Threads :
          WF_vars(Step(t)) /\ SF_vars(TopLock(t)) /\ SF_vars(FullLock(t))

\* C19: the path never holds more than MAX_PLAYOUT_LENGTH edges, and each
\* call of playout() eventually returns, flip_lock granted to every thread
\* that waits for it.
C19_EveryCallReturns ==
    /\ [](\A t \in Threads : Len(tl[t].path) <= MAX_PLAYOUT_LENGTH)
    /\ \A t \in Threads : (tl[t].pc # "idle") ~> (tl[t].pc = "idle")

(* --------------------------- the value network ------------------------- *)
\* what forward returns for a board on a new NNUEState
FreshValue(P, board) == forward(NNUEStateNew(P), P, board).value

\* whether forward on a new NNUEState overflows an accumulator entry
FreshOverflows(P, board) == forward(NNUEStateNew(P), P, board).state.ov

\* C21 as stated: forward on a new NNUEState returns for the mirrored board
\* the negated value of the board, whether or not mirroring also hands the
\* move to the other side.
C21_MirrorNegates ==
    (call.fn = "forward" /\ call.calls = 1)
        => \/ FreshValue(call.params, Mirror(call.board)) = -call.r
           \/ FreshValue(call.params, MirrorPieces(call.board)) = -call.r

\* C21 amended: forward on a new NNUEState returns for the mirrored board,
\* the other side to move, the same value as for the board, no addition into
\* the accumulator overflowing.
C21_MirrorPreserves ==
    (call.fn = "forward" /\ call.calls = 1 /\ ~call.state.ov
       /\ ~FreshOverflows(call.params, Mirror(call.board)))
        => FreshValue(call.params, Mirror(call.board)) = call.r

\* forward has returned a value other than 0 for a board of two pieces of
\* different colours, the two perspectives weighed differently
C21_Witness ==
    /\ call.fn = "forward"
    /\ call.calls = 1
    /\ ~call.state.ov
    /\ call.r # 0
    /\ call.state.white # call.state.black
    /\ call.params.o[1] # call.params.o[2]
    /\ {x[3] : x \in call.board.pieces} = Colors

\* C22: whatever forward was called with before on the same NNUEState, it
\* returns the value it returns for the board on a new NNUEState.
C22_ForwardFromScratch ==
    call.fn = "forward" => call.r = FreshValue(call.params, call.board)

(* -------------------------------- locking ------------------------------ *)
\* the program points at which a thread holds flip_lock: inside the block of
\* lines 259-261, and in the ArenaFull arm from line 288 to its return
LockedPoints == {"unlock", "full_check", "clear", "full_ret"}

\* the program points at which a thread is about to take flip_lock
AcquirePoints == {"lock", "full_lock"}

\* the steps that call into the transposition table, which serializes them
\* with its internal mutex: lookup, lookup_into, insert, and is_arena_full
\* with flip_tables
TablePoints == {"lookup", "lookup_into", "insert", "full_check"}

\* thread t is inside playout() and has not crashed
Running(t) == ~ub /\ tl[t].pc \notin {"idle", "ub", "panicked"}

\* thread t waits for flip_lock
Blocked(t) == tl[t].pc \in AcquirePoints /\ flip_lock # NoThread

\* C23: a thread holds flip_lock exactly between an acquisition and the drop
\* of that guard, so it never waits for flip_lock while holding it; a step
\* into the transposition table neither takes nor releases flip_lock; the
\* thread that holds flip_lock can take a step; and as long as a thread is
\* inside playout() some thread can take a step.
C23_DeadlockFree ==
    /\ [](\A t \in Threads : (flip_lock = t) <=> (tl[t].pc \in LockedPoints))
    /\ [](\A t \in Threads : (Running(t) /\ flip_lock = t) => ENABLED Step(t))
    /\ []((\E t \in Threads : Running(t)) => ENABLED Next)
    /\ [][\A t \in Threads :
            (tl[t].pc \in TablePoints /\ tl'[t].pc # tl[t].pc)
                => flip_lock' = flip_lock]_vars

\* two threads wait for flip_lock while a third party, the thread flipping
\* the tables in the ArenaFull arm, holds it; with two threads: one waits at
\* the top of its iteration while the other flips
C23_Witness ==
    \E t, h \in Threads :
        /\ t # h
        /\ Blocked(t)
        /\ flip_lock = h
        /\ tl[h].pc = "clear"

====
